---- MODULE Spec2Model ----
(***************************************************************************)
(* Stock-Price-Predictor (stock_price_predictor.py): a sequential walk     *)
(* over {input}/{exchange}/{*.csv} that samples a window of rows from each *)
(* file, appends three forecast rows and writes the batch.                 *)
(*                                                                         *)
(* Representation.  A price is an integer number of cents (the inputs are  *)
(* prices written with two decimals).  A timestamp is a day number (the    *)
(* ordinal of a datetime.date), so "+ timedelta(days=1)" is "+ 1".  A raw  *)
(* CSV line is a record of what row.strip().split(',') and the two parsers *)
(* see: the number of comma-separated fields, and for fields 1 and 2       *)
(* whether strptime / float accept the text and the value they yield.      *)
(***************************************************************************)
EXTENDS Integers, Sequences, FiniteSets, TLC

\* The window length hard-wired in generate_random_start_row / get_random_rows.
WindowSize == 10

\* ------------------------------------------------------------------ bounds
MaxExchanges == 2
MaxN == 2
MaxEntries == 2
MaxShortRows == 2
MaxExtraRows == 1
MaxWindow == 3

\* ------------------------------------------------------------- helpers
Max(S) == CHOOSE m \in S : \A x \in S : x <= m

Range(s) == {s[i] : i \in 1..Len(s)}

SeqsUpTo(S, k) == UNION {[1..m -> S] : m \in 0..k}

\* ------------------------------------------------------- RowSampler
\* Faulty variant: the upper end of the draw is one too large.
generate_start_row_off_by_one(total_row_count) ==
    IF total_row_count < WindowSize
    THEN {0}
    ELSE 0..(total_row_count - WindowSize + 1)

\* random.randint(0, total_row_count-10): every value the draw can return.
generate_random_start_row(total_row_count) ==
    IF total_row_count < WindowSize
    THEN {0}
    ELSE 0..(total_row_count - WindowSize)

\* splitted_row[1] and splitted_row[2] exist, strptime and float accept them.
ParseOK(line) == line.nf >= 3 /\ line.ts_ok /\ line.price_ok

\* The dict appended to random_rows for one line (fields beyond the third
\* are ignored).
ParseRow(line) == [id |-> line.id, ts |-> line.ts, price |-> line.price]

\* Faulty variant: the break test uses > where the code has >=.
RECURSIVE ReadLoopLateBreak(_, _, _, _)
ReadLoopLateBreak(lines, start_row, current_row, acc) ==
    IF current_row >= Len(lines) THEN [none |-> FALSE, rows |-> acc]
    ELSE IF current_row > start_row + WindowSize THEN [none |-> FALSE, rows |-> acc]
    ELSE IF current_row >= start_row
         THEN IF ParseOK(lines[current_row + 1])
              THEN ReadLoopLateBreak(lines, start_row, current_row + 1,
                                     Append(acc, ParseRow(lines[current_row + 1])))
              ELSE [none |-> TRUE, rows |-> <<>>]
         ELSE ReadLoopLateBreak(lines, start_row, current_row + 1, acc)

\* Faulty variant: the collect test uses > where the code has >=.
RECURSIVE ReadLoopSkipsFirst(_, _, _, _)
ReadLoopSkipsFirst(lines, start_row, current_row, acc) ==
    IF current_row >= Len(lines) THEN [none |-> FALSE, rows |-> acc]
    ELSE IF current_row >= start_row + WindowSize THEN [none |-> FALSE, rows |-> acc]
    ELSE IF current_row > start_row
         THEN IF ParseOK(lines[current_row + 1])
              THEN ReadLoopSkipsFirst(lines, start_row, current_row + 1,
                                      Append(acc, ParseRow(lines[current_row + 1])))
              ELSE [none |-> TRUE, rows |-> <<>>]
         ELSE ReadLoopSkipsFirst(lines, start_row, current_row + 1, acc)

\* The "for row in file" loop of get_random_rows, from current_row on.
\* Lines before start_row are counted but never split or parsed.
RECURSIVE ReadLoop(_, _, _, _)
ReadLoop(lines, start_row, current_row, acc) ==
    IF current_row >= Len(lines) THEN [none |-> FALSE, rows |-> acc]
    ELSE IF current_row >= start_row + WindowSize THEN [none |-> FALSE, rows |-> acc]
    ELSE IF current_row >= start_row
         THEN IF ParseOK(lines[current_row + 1])
              THEN ReadLoop(lines, start_row, current_row + 1,
                            Append(acc, ParseRow(lines[current_row + 1])))
              ELSE [none |-> TRUE, rows |-> <<>>]
         ELSE ReadLoop(lines, start_row, current_row + 1, acc)

\* The outcomes of get_random_rows(file_path), one per possible draw: the
\* returned value (None, or the list), the start_row drawn, and the ERROR
\* line printed by an except branch.
get_random_rows(f) ==
    IF f.status = "missing"
    THEN {[none |-> TRUE, rows |-> <<>>, start_row |-> 0, printed |-> <<"ERROR: file does not exist">>]}
    ELSE IF f.status = "denied"
    THEN {[none |-> TRUE, rows |-> <<>>, start_row |-> 0, printed |-> <<"ERROR: permission denied">>]}
    ELSE { LET r == ReadLoop(f.lines, s, 0, <<>>)
           IN  [none |-> r.none, rows |-> r.rows, start_row |-> s,
                printed |-> IF r.none THEN <<"ERROR: unexpected">> ELSE <<>>]
           : s \in generate_random_start_row(Len(f.lines)) }

\* ------------------------------------------------------- Forecaster
\* sorted(set(...), reverse=True)
RECURSIVE SortedDesc(_)
SortedDesc(S) ==
    IF S = {} THEN <<>>
    ELSE LET m == Max(S) IN <<m>> \o SortedDesc(S \ {m})

\* The prices whose rank is looked up: set([...]) collapses duplicates.
unique_stock_price_values(rows) == {rows[i].price : i \in 1..Len(rows)}

\* Faulty variant: the difference is added whole instead of halved.
InterpolateWithoutHalving(a, b) == {b}

\* round(a + (b - a)/2, 2) on prices in cents.  The exact value is (a+b)/2
\* cents; when a+b is odd it is a decimal tie, which the binary double
\* resolves to either neighbour depending on its representation error.
RoundHalf(a, b) ==
    IF (a + b) % 2 = 0 THEN {(a + b) \div 2}
    ELSE {(a + b) \div 2, (a + b) \div 2 + 1}

\* round(a + (b - a)/4, 2) on prices in cents: exact value (3a+b)/4 cents.
RoundQuarter(a, b) ==
    LET q == 3 * a + b
    IN  IF q % 4 = 0 \/ q % 4 = 1 THEN {q \div 4}
        ELSE IF q % 4 = 3 THEN {q \div 4 + 1}
        ELSE {q \div 4, q \div 4 + 1}

\* Faulty variant: the prices are sorted without set(), duplicates kept.
RemoveOne(s, x) ==
    LET i == CHOOSE k \in 1..Len(s) : s[k] = x
    IN  SubSeq(s, 1, i - 1) \o SubSeq(s, i + 1, Len(s))

RECURSIVE SortedDescList(_)
SortedDescList(s) ==
    IF s = <<>> THEN <<>>
    ELSE LET m == Max(Range(s)) IN <<m>> \o SortedDescList(RemoveOne(s, m))

sorted_without_set(rows) == SortedDescList([i \in 1..Len(rows) |-> rows[i].price])

\* sorted(set(prices), reverse=True): the distinct prices, descending.
sorted_stock_price_values(rows) == SortedDesc(unique_stock_price_values(rows))

\* The possible predicted_values lists [p0, p1, p2] for a window whose
\* sorted distinct prices have an element at index 1.
predicted_values(rows) ==
    LET n  == rows[Len(rows)].price
        p0 == sorted_stock_price_values(rows)[2]
    IN  UNION { { <<p0, p1, p2>> : p2 \in RoundQuarter(p1, p0) } : p1 \in RoundHalf(p0, n) }

\* Faulty variant: every new row is built from the last row of the window.
AppendPredictedFromWindow(rows, pv) ==
    rows \o [k \in 1..Len(pv) |->
                [id    |-> rows[Len(rows)].id,
                 ts    |-> rows[Len(rows)].ts + 1,
                 price |-> pv[k]]]

\* The "for stock_price_values in predicted_values" loop: every new row is
\* built from random_rows[-1], which is the row appended just before.
RECURSIVE AppendPredicted(_, _)
AppendPredicted(rows, pv) ==
    IF pv = <<>> THEN rows
    ELSE AppendPredicted(
             Append(rows, [id    |-> rows[Len(rows)].id,
                           ts    |-> rows[Len(rows)].ts + 1,
                           price |-> Head(pv)]),
             Tail(pv))

\* Faulty variant: a window with a single distinct price falls back to index 0.
predict_with_fallback(rr) ==
    IF rr.none
    THEN {[raised |-> TRUE, err |-> "TypeError", rows |-> <<>>]}
    ELSE IF Len(rr.rows) = 0
    THEN {[raised |-> TRUE, err |-> "IndexError", rows |-> <<>>]}
    ELSE IF Len(sorted_stock_price_values(rr.rows)) < 2
    THEN LET p == rr.rows[1].price
         IN  {[raised |-> FALSE, err |-> "", rows |-> AppendPredicted(rr.rows, <<p, p, p>>)]}
    ELSE {[raised |-> FALSE, err |-> "", rows |-> AppendPredicted(rr.rows, pv)]
          : pv \in predicted_values(rr.rows)}

\* The outcomes of predict_next_values(random_rows): it raises (TypeError on
\* None, IndexError on random_rows[-1] of an empty list or on index 1 of a
\* shorter sorted list), or returns the extended list.
predict_next_values(rr) ==
    IF rr.none
    THEN {[raised |-> TRUE, err |-> "TypeError", rows |-> <<>>]}
    ELSE IF Len(rr.rows) = 0
    THEN {[raised |-> TRUE, err |-> "IndexError", rows |-> <<>>]}
    ELSE IF Len(sorted_stock_price_values(rr.rows)) < 2
    THEN {[raised |-> TRUE, err |-> "IndexError", rows |-> <<>>]}
    ELSE {[raised |-> FALSE, err |-> "", rows |-> AppendPredicted(rr.rows, pv)]
          : pv \in predicted_values(rr.rows)}

\* ------------------------------------------------------- RowFormatter
\* strftime('%d-%m-%Y') names the same day; "{:.2f}" of a price in cents is
\* its whole part and two fraction digits.
format_rows(rows) ==
    [i \in 1..Len(rows) |->
        [id |-> rows[i].id, ts |-> rows[i].ts,
         price |-> <<rows[i].price \div 100, rows[i].price % 100>>]]

\* save_predicted_stock_rows: the file written, or the ERROR line of its
\* own except branches when the output tree cannot be written.
save_predicted_stock_rows(out, rows) ==
    IF out = "ok"
    THEN [written |-> TRUE, content |-> format_rows(rows), printed |-> <<>>]
    ELSE [written |-> FALSE, content |-> <<>>, printed |-> <<"ERROR: output permission denied">>]

\* ------------------------------------------------------- inputs
\* Line i of a generated file: stock "AAPL", day i, and a price that is the
\* same on every line ("flat") or cycles through three values ("mixed").
PriceAt(pat, i) ==
    IF pat = "flat" THEN 1000 ELSE <<1000, 1200, 900>>[(i % 3) + 1]

GoodLine(pat, i) ==
    [nf |-> 3, id |-> "AAPL", ts_ok |-> TRUE, ts |-> i,
     price_ok |-> TRUE, price |-> PriceAt(pat, i)]

\* A line with a missing field ("fields": only two), a date strptime
\* rejects ("date"), or a price float() rejects ("price").
BadLine(pat, i, how) ==
    IF how = "fields" THEN [GoodLine(pat, i) EXCEPT !.nf = 2]
    ELSE IF how = "date" THEN [GoodLine(pat, i) EXCEPT !.ts_ok = FALSE]
    ELSE [GoodLine(pat, i) EXCEPT !.price_ok = FALSE]

\* A readable file of len lines; line `at` is damaged (at = 0: none is).
MkFile(len, pat, at, how) ==
    [status |-> "ok",
     lines  |-> [i \in 1..len |->
                   IF i = at THEN BadLine(pat, i, how) ELSE GoodLine(pat, i)]]

Unopenable ==
    {[status |-> "missing", lines |-> <<>>], [status |-> "denied", lines |-> <<>>]}

\* What opening a CSV file listed in an exchange can find: files that cannot
\* be opened, an empty file, short and long files with one or several
\* prices, and files with a line that does not parse.
TreeFiles ==
    Unopenable \cup
    { MkFile(0, "flat", 0, "none"),
      MkFile(1, "flat", 0, "none"),
      MkFile(2, "mixed", 0, "none"),
      MkFile(2, "mixed", 2, "price"),
      MkFile(WindowSize, "flat", 0, "none"),
      MkFile(WindowSize, "mixed", 0, "none"),
      MkFile(WindowSize + 1, "mixed", 0, "none"),
      MkFile(WindowSize + 1, "mixed", 1, "fields") }

\* The files get_random_rows is applied to on its own: every length up to
\* MaxShortRows and from 10 to 10 + MaxExtraRows, flat or mixed prices, no
\* damage or any one line damaged in any of the three ways.
FileLengths == (0..MaxShortRows) \cup (WindowSize..(WindowSize + MaxExtraRows))

SampledFiles ==
    Unopenable \cup
    { MkFile(len, pat, 0, "none") : len \in FileLengths, pat \in {"flat", "mixed"} }
    \cup UNION { { MkFile(len, pat, at, how) :
                     at \in 1..len, how \in {"fields", "date", "price"} }
                 : len \in FileLengths, pat \in {"flat", "mixed"} }

WellFormed(f) == f.status = "ok" /\ \A i \in 1..Len(f.lines) : ParseOK(f.lines[i])

\* A directory entry: what os.path.isfile and name.lower().endswith('.csv')
\* say about it.
Entries ==
    {[isfile |-> TRUE,  csv |-> TRUE],     \* a.csv / A.CSV
     [isfile |-> TRUE,  csv |-> FALSE],    \* notes.txt
     [isfile |-> FALSE, csv |-> TRUE]}     \* a directory named old.csv

Listings == SeqsUpTo(Entries, MaxEntries)

\* The entries of the input root: os.path.isdir(exchange_path).
Roots == SeqsUpTo([isdir : BOOLEAN], MaxExchanges)

\* Windows handed to predict_next_values directly.
ForecastPrices == {1000, 1001, 1003, 1007}

WindowRows ==
    {[id |-> "AAPL", ts |-> 1, price |-> p] : p \in ForecastPrices}
    \cup {[id |-> "MSFT", ts |-> 5, price |-> p] : p \in ForecastPrices}

Windows == SeqsUpTo(WindowRows, MaxWindow)

\* ------------------------------------------------------- state
VARIABLES
    n,                      \* args.n
    root,                   \* os.listdir(input_path)
    ex,                     \* root entries the process_exchanges loop has consumed
    pc,                     \* "exchanges" | "files" | "done"; "sample"/"sampled" and
                            \* "forecast"/"forecasted" when a function is applied alone
    ret,                    \* how the last process_files_from_exchange call ended
    listing,                \* os.listdir(exchange_path) of the current/last call
    fi,                     \* listing entries the file loop has consumed
    processed_files_count,
    called,                 \* root indices process_files_from_exchange was called for
    failed_exchanges,       \* root indices whose call ended in an except branch
    attempted,              \* listing indices the pipeline was started on (this call)
    completed,              \* listing indices counted in processed_files_count
    written,                \* listing indices whose output file was written
    printed,                \* ERROR lines printed during this call
    file,                   \* the file the last pipeline run opened
    start_row,              \* the start_row it drew
    random_rows,            \* what get_random_rows returned
    predicted_rows,         \* what predict_next_values returned (or that it raised)
    output_file             \* the rows of the last output file written

vars == <<n, root, ex, pc, ret, listing, fi, processed_files_count, called,
          failed_exchanges, attempted, completed, written, printed, file,
          start_row, random_rows, predicted_rows, output_file>>

NoFile == [status |-> "none", lines |-> <<>>]
NoRows == [none |-> TRUE, rows |-> <<>>]
NoPrediction == [raised |-> FALSE, err |-> "none", rows |-> <<>>]

Init ==
    /\ n \in 0..MaxN
    /\ root \in Roots
    /\ ex = 0
    /\ pc = "exchanges"
    /\ ret = "none"
    /\ listing = <<>>
    /\ fi = 0
    /\ processed_files_count = 0
    /\ called = {}
    /\ failed_exchanges = {}
    /\ attempted = {}
    /\ completed = {}
    /\ written = {}
    /\ printed = <<>>
    /\ file = NoFile
    /\ start_row = 0
    /\ random_rows = NoRows
    /\ predicted_rows = NoPrediction
    /\ output_file = <<>>

\* ------------------------------------------------------- traversal
\* Faulty variant: the exception is not caught in process_files_from_exchange and
\* reaches the except branch of process_exchanges, which ends its loop.
ExchangeErrorEscapes == "done"

\* Where control goes once an except branch of process_files_from_exchange
\* has printed its line: the function returns normally to the loop of
\* process_exchanges.
AfterExchangeError == "exchanges"

\* process_files_from_exchange returns (how: "cap", "end" or "error").
Return(how) ==
    /\ ret' = how
    /\ pc' = IF how = "error" THEN AfterExchangeError ELSE "exchanges"
    /\ ex' = ex + 1
    /\ failed_exchanges' = IF how = "error" THEN failed_exchanges \cup {ex + 1}
                           ELSE failed_exchanges

NoPipeline ==
    /\ file' = NoFile
    /\ start_row' = 0
    /\ random_rows' = NoRows
    /\ predicted_rows' = NoPrediction
    /\ output_file' = <<>>

\* process_exchanges: the entry is not a directory.
SkipRootEntry ==
    /\ pc = "exchanges"
    /\ ex < Len(root)
    /\ ~root[ex + 1].isdir
    /\ ex' = ex + 1
    /\ UNCHANGED <<n, root, pc, ret, listing, fi, processed_files_count, called,
                   failed_exchanges, attempted, completed, written, printed, file,
                   start_row, random_rows, predicted_rows, output_file>>

\* process_exchanges calls process_files_from_exchange, whose os.listdir
\* succeeds; an empty listing ends the for loop at once.
ListExchange ==
    /\ pc = "exchanges"
    /\ ex < Len(root)
    /\ root[ex + 1].isdir
    /\ called' = called \cup {ex + 1}
    /\ \E l \in Listings :
         /\ listing' = l
         /\ IF l = <<>>
            THEN Return("end")
            ELSE /\ pc' = "files"
                 /\ ret' = "none"
                 /\ UNCHANGED <<ex, failed_exchanges>>
    /\ fi' = 0
    /\ processed_files_count' = 0
    /\ attempted' = {}
    /\ completed' = {}
    /\ written' = {}
    /\ printed' = <<>>
    /\ NoPipeline
    /\ UNCHANGED <<n, root>>

\* process_exchanges calls process_files_from_exchange, whose os.listdir
\* raises (the directory is gone or unreadable): ERROR line, return.
ListExchangeFails ==
    /\ pc = "exchanges"
    /\ ex < Len(root)
    /\ root[ex + 1].isdir
    /\ called' = called \cup {ex + 1}
    /\ listing' = <<>>
    /\ \E e \in {"ERROR: directory does not exist", "ERROR: permission denied"} :
         printed' = <<e>>
    /\ Return("error")
    /\ fi' = 0
    /\ processed_files_count' = 0
    /\ attempted' = {}
    /\ completed' = {}
    /\ written' = {}
    /\ NoPipeline
    /\ UNCHANGED <<n, root>>

\* The end of one iteration of the file loop: the cap test, then the next
\* entry or the end of the listing.
EndIteration(count) ==
    IF count = n THEN Return("cap")
    ELSE IF fi + 1 = Len(listing) THEN Return("end")
    ELSE /\ pc' = "files"
         /\ UNCHANGED <<ret, ex, failed_exchanges>>

\* One iteration of the file loop on an entry that is not a regular file
\* with a .csv suffix.
SkipEntry ==
    /\ pc = "files"
    /\ ~(listing[fi + 1].isfile /\ listing[fi + 1].csv)
    /\ fi' = fi + 1
    /\ EndIteration(processed_files_count)
    /\ NoPipeline
    /\ UNCHANGED <<n, root, listing, processed_files_count, called, attempted,
                   completed, written, printed>>

\* One iteration of the file loop on a CSV file: sample, forecast, save,
\* count.  An exception of predict_next_values leaves the loop for the
\* except branch of process_files_from_exchange.
ProcessFile ==
    /\ pc = "files"
    /\ listing[fi + 1].isfile /\ listing[fi + 1].csv
    /\ fi' = fi + 1
    /\ attempted' = attempted \cup {fi + 1}
    /\ \E f \in TreeFiles, out \in {"ok", "denied"} :
       \E s \in get_random_rows(f) :
       \E p \in predict_next_values(s) :
         /\ file' = f
         /\ start_row' = s.start_row
         /\ random_rows' = [none |-> s.none, rows |-> s.rows]
         /\ predicted_rows' = p
         /\ IF p.raised
            THEN /\ printed' = printed \o s.printed \o <<"ERROR: unexpected">>
                 /\ output_file' = <<>>
                 /\ Return("error")
                 /\ UNCHANGED <<processed_files_count, completed, written>>
            ELSE LET w == save_predicted_stock_rows(out, p.rows)
                 IN  /\ printed' = printed \o s.printed \o w.printed
                     /\ output_file' = w.content
                     /\ written' = IF w.written THEN written \cup {fi + 1} ELSE written
                     /\ completed' = completed \cup {fi + 1}
                     /\ processed_files_count' = processed_files_count + 1
                     /\ EndIteration(processed_files_count + 1)
    /\ UNCHANGED <<n, root, listing, called>>

\* process_exchanges: the root listing is exhausted.
Finish ==
    /\ pc = "exchanges"
    /\ ex = Len(root)
    /\ pc' = "done"
    /\ UNCHANGED <<n, root, ex, ret, listing, fi, processed_files_count, called,
                   failed_exchanges, attempted, completed, written, printed, file,
                   start_row, random_rows, predicted_rows, output_file>>

Next == SkipRootEntry \/ ListExchange \/ ListExchangeFails \/ SkipEntry
        \/ ProcessFile \/ Finish

Spec == Init /\ [][Next]_vars

\* ------------------------------------------------------- sampler alone
\* get_random_rows applied to one file of SampledFiles.
InitSampler ==
    /\ n = 0
    /\ root = <<>>
    /\ ex = 0
    /\ pc = "sample"
    /\ ret = "none"
    /\ listing = <<>>
    /\ fi = 0
    /\ processed_files_count = 0
    /\ called = {}
    /\ failed_exchanges = {}
    /\ attempted = {}
    /\ completed = {}
    /\ written = {}
    /\ printed = <<>>
    /\ file \in SampledFiles
    /\ start_row = 0
    /\ random_rows = NoRows
    /\ predicted_rows = NoPrediction
    /\ output_file = <<>>

Sample ==
    /\ pc = "sample"
    /\ pc' = "sampled"
    /\ \E s \in get_random_rows(file) :
         /\ start_row' = s.start_row
         /\ random_rows' = [none |-> s.none, rows |-> s.rows]
         /\ printed' = s.printed
    /\ UNCHANGED <<n, root, ex, ret, listing, fi, processed_files_count, called,
                   failed_exchanges, attempted, completed, written, file,
                   predicted_rows, output_file>>

NextSampler == Sample

SpecSampler == InitSampler /\ [][NextSampler]_vars

\* ------------------------------------------------------- forecaster alone
\* predict_next_values applied to an arbitrary window of at most MaxWindow
\* rows (rows of two stocks, two days, four prices, in any order).
InitForecast ==
    /\ n = 0
    /\ root = <<>>
    /\ ex = 0
    /\ pc = "forecast"
    /\ ret = "none"
    /\ listing = <<>>
    /\ fi = 0
    /\ processed_files_count = 0
    /\ called = {}
    /\ failed_exchanges = {}
    /\ attempted = {}
    /\ completed = {}
    /\ written = {}
    /\ printed = <<>>
    /\ file = NoFile
    /\ start_row = 0
    /\ random_rows \in {[none |-> FALSE, rows |-> w] : w \in Windows}
    /\ predicted_rows = NoPrediction
    /\ output_file = <<>>

Forecast ==
    /\ pc = "forecast"
    /\ pc' = "forecasted"
    /\ predicted_rows' \in predict_next_values(random_rows)
    /\ UNCHANGED <<n, root, ex, ret, listing, fi, processed_files_count, called,
                   failed_exchanges, attempted, completed, written, printed, file,
                   start_row, random_rows, output_file>>

NextForecast == Forecast

SpecForecast == InitForecast /\ [][NextForecast]_vars

\* ------------------------------------------------------- properties
Min(a, b) == IF a <= b THEN a ELSE b

Abs(x) == IF x < 0 THEN 0 - x ELSE x

Qualifies(j) == listing[j].isfile /\ listing[j].csv

\* The last file-loop iteration ran the pipeline on a file.
PipelineRan == file.status # "none"

\* ... and its batch was handed to save_predicted_stock_rows.
ReachedSave == PipelineRan /\ ~predicted_rows.raised

\* process_files_from_exchange has returned from a call that got a listing.
CallReturned == pc \in {"exchanges", "done"} /\ ret # "none"

DistinctPrices(rows) == {rows[i].price : i \in 1..Len(rows)}

\* C1: per-file failure isolation: when a call of process_files_from_exchange
\* has returned, every qualifying file listed after a file whose sampling or
\* forecasting failed has had the pipeline run on it, unless the cap n was
\* already reached before it.
C1_PerFileIsolation ==
    CallReturned =>
        \A i, j \in 1..Len(listing) :
            ( /\ i < j
              /\ Qualifies(i) /\ Qualifies(j)
              /\ i \in attempted \ completed
              /\ Cardinality(completed \cap (1..(j - 1))) < n )
            => j \in attempted

\* C2: per-exchange cap: in one call of process_files_from_exchange the
\* pipeline runs on at most n files, for every n >= 0.
C2_PerExchangeCap == Cardinality(attempted) <= n

C4_SinglePriceFails ==
    (PipelineRan /\ ~random_rows.none
        /\ Cardinality(DistinctPrices(random_rows.rows)) < 2)
    => /\ predicted_rows.raised
       /\ predicted_rows.rows = <<>>
       /\ Len(printed) >= 1
       /\ printed[Len(printed)] = "ERROR: unexpected"
       /\ fi \notin written
       /\ fi \notin completed
       /\ output_file = <<>>

C4_Witness ==
    /\ PipelineRan
    /\ ~random_rows.none
    /\ Len(random_rows.rows) = WindowSize
    /\ Cardinality(DistinctPrices(random_rows.rows)) = 1
    /\ predicted_rows.raised
    /\ printed = <<"ERROR: unexpected">>
    /\ written = {}

\* C5: exchange-level isolation: whatever fails inside a call of
\* process_files_from_exchange, control comes back to the loop of
\* process_exchanges: the function has been called for every directory the
\* loop has passed, the run can always take a step until it is done, every
\* step brings the end nearer, and at the end the function has been called
\* for every directory of the root listing.
DirectoryExchanges == {i \in 1..Len(root) : root[i].isdir}

\* An upper bound on the steps left: the root entries not yet consumed, each
\* worth a listing step and its file-loop iterations, and the final step.
StepsLeft ==
    (Len(root) - ex) * (MaxEntries + 2)
    + (IF pc = "files" THEN Len(listing) - fi
       ELSE IF pc = "exchanges" THEN MaxEntries + 1
       ELSE 0)

C5_EveryExchangeCalled ==
    /\ [](pc = "done" => called = DirectoryExchanges /\ ex = Len(root))
    /\ [](pc = "exchanges" => called = {i \in DirectoryExchanges : i <= ex})
    /\ [](pc # "done" => ENABLED Next)
    /\ [][StepsLeft' < StepsLeft /\ StepsLeft' >= 0]_vars

C5_Witness ==
    /\ pc = "done"
    /\ \E i, j \in called : i < j /\ i \in failed_exchanges

\* C6: for a well-formed file of at least 10 rows, every draw gives
\* 0 <= start_row <= total_row_count - 10 and a window of exactly 10 rows.
C6_WindowBounds ==
    (pc = "sampled" /\ WellFormed(file) /\ Len(file.lines) >= WindowSize)
    => /\ 0 <= start_row
       /\ start_row <= Len(file.lines) - WindowSize
       /\ ~random_rows.none
       /\ Len(random_rows.rows) = WindowSize

C6_Witness ==
    /\ pc = "sampled" /\ WellFormed(file)
    /\ Len(file.lines) = WindowSize + 1
    /\ start_row = 1
    /\ Len(random_rows.rows) = WindowSize

Window == random_rows.rows
Forecasted == pc = "forecasted" /\ ~predicted_rows.raised
LastPrice == Window[Len(Window)].price
P0 == predicted_rows.rows[Len(Window) + 1].price
P1 == predicted_rows.rows[Len(Window) + 2].price
P2 == predicted_rows.rows[Len(Window) + 3].price

StrictlyBetween(x, a, b) == (a < x /\ x < b) \/ (b < x /\ x < a)
Between(x, a, b) == (a <= x /\ x <= b) \/ (b <= x /\ x <= a)

\* C8: for a window with at least 2 distinct prices, p0 is the largest
\* price strictly below the window maximum, whatever is repeated.
C8_RankLookup ==
    (pc = "forecasted" /\ Cardinality(DistinctPrices(Window)) >= 2)
    => /\ ~predicted_rows.raised
       /\ P0 < Max(DistinctPrices(Window))
       /\ \A i \in 1..Len(Window) :
              Window[i].price < Max(DistinctPrices(Window)) => Window[i].price <= P0
       /\ \E i \in 1..Len(Window) : Window[i].price = P0

C8_Witness ==
    /\ Forecasted
    /\ Len(Window) = 3
    /\ Window[1].price = 1007 /\ Window[2].price = 1007 /\ Window[3].price = 1003
    /\ P0 = 1003

\* C9 (as stated): p1 lies strictly between p0 and n whenever p0 # n, and p2
\* strictly between p1 and p0 whenever p1 # p0.
C9_StrictlyBetween ==
    Forecasted =>
        /\ (P0 # LastPrice => StrictlyBetween(P1, P0, LastPrice))
        /\ (P1 # P0 => StrictlyBetween(P2, P1, P0))

\* C9 (amended): p1 lies between p0 and n inclusive, and strictly between
\* them whenever they differ by at least 2 cents; p2 lies between p1 and p0
\* inclusive, and strictly between them whenever they differ by at least 3
\* cents.  One cent apart, p1 is p0 or n, and p2 is p1.
C9_BetweenAfterRounding ==
    Forecasted =>
        /\ Between(P1, P0, LastPrice)
        /\ (Abs(LastPrice - P0) >= 2 => StrictlyBetween(P1, P0, LastPrice))
        /\ Between(P2, P1, P0)
        /\ (Abs(P0 - P1) >= 3 => StrictlyBetween(P2, P1, P0))
        /\ (Abs(P0 - P1) = 1 => P2 = P1)

C9_Witness ==
    /\ Forecasted
    /\ P0 = 1000 /\ LastPrice = 1001
    /\ P1 \in {1000, 1001}

====
